---- MODULE Spec2Model ----
(***************************************************************************)
(* Multirotor sizing notebook (06_SystemSizingCodeOptimization): the       *)
(* evaluator sizing_code(param, arg) and the optimization driver cells.    *)
(* The tank example SizingCode(param, arg) of notebook 05 is modelled for  *)
(* the dispatch on arg it shares with sizing_code.                         *)
(*                                                                         *)
(* Numbers are fixed point.  A design vector holds its eight coefficients  *)
(* in hundredths (beta_pro = 0.33 is 33).  Masses are in g, forces in mN,  *)
(* torques in mN.m, voltages in mV, currents in mA, times in 1/1000 min,   *)
(* lengths in mm, speeds in mHz and mrad/s, powers in W, cell counts in    *)
(* 1/1000 cell.                                                            *)
(***************************************************************************)
EXTENDS Integers, Sequences, FiniteSets, TLC

VARIABLES specification, SLSQP, pc, result, nEval, calls, locals, shown,
          stdout, frame

vars == <<specification, SLSQP, pc, result, nEval, calls, locals, shown,
          stdout, frame>>

(***************************************************************************)
(* Bounds of the exploration.                                              *)
(***************************************************************************)
\* evaluations one optimization run may make before it stops
MaxEvals == 3

\* calls made when the evaluators are called directly
MaxCalls == 1

(***************************************************************************)
(* Cell "Specifications", "Architecture", "Reference parameters".          *)
(***************************************************************************)
M_pay == 100
a_to == 245
t_hov_spec == 25000
MTOW == 360000
g == 981

N_arm == 4
N_pro_arm == 2
\* the propellers of one arm counted once
N_pro_one_per_arm == N_arm

N_pro == N_pro_arm * N_arm

M_bat_ref == 329
E_bat_ref == (220 * 3600 * M_bat_ref) \div 1000
P_esc_ref == 3108
M_esc_ref == 115
T_nom_mot_ref == 2320
T_max_mot_ref == (85 * T_nom_mot_ref) \div 70
R_mot_ref == 30
M_mot_ref == 575
K_mot_ref == 30
T_mot_fr_ref == 30
sigma_max == 70
rho_s == 1700
rho_air == 118
ND_max == 44450
D_pro_ref == 279
M_pro_ref == 15

(***************************************************************************)
(* Integer arithmetic: a*b/c without an oversized intermediate product,    *)
(* and floor roots by bisection.                                           *)
(***************************************************************************)
MulDiv(a, b, c) == (a \div c) * b + ((a % c) * b) \div c

RECURSIVE RootSearch(_, _, _, _)
RootSearch(n, k, lo, hi) ==
    IF lo >= hi THEN lo
    ELSE LET mid == (lo + hi + 1) \div 2
             pw == IF k = 2 THEN mid * mid ELSE mid * mid * mid
         IN IF pw <= n THEN RootSearch(n, k, mid, hi)
            ELSE RootSearch(n, k, lo, mid - 1)

sqrt(n) == RootSearch(n, 2, 0, 46340)

cbrt(n) == RootSearch(n, 3, 0, 1290)


(***************************************************************************)
(* The body of sizing_code is a sequence of assignments to local names.    *)
(* l holds the locals assigned so far (0 before a name is assigned), s the *)
(* specification globals.  Each stage gives the right-hand side of its     *)
(* assignments.                                                            *)
(***************************************************************************)
Unassigned ==
    [beta_pro |-> 0, k_os |-> 0, k_ND |-> 0, k_mot |-> 0, k_speed_mot |-> 0,
     k_mb |-> 0, k_vb |-> 0, k_D |-> 0,
     M_total |-> 0, F_pro_hov |-> 0, F_pro_to |-> 0,
     C_t |-> 0, C_p |-> 0, ND |-> 0, D_pro |-> 0, n_pro_to |-> 0,
     Omega_pro_to |-> 0, M_pro |-> 0, P_pro_to |-> 0, T_pro_to |-> 0,
     n_pro_hov |-> 0, Omega_pro_hov |-> 0, P_pro_hov |-> 0, T_pro_hov |-> 0,
     U_bat_est |-> 0,
     T_nom_mot |-> 0, M_mot |-> 0, K_mot |-> 0, R_mot |-> 0, T_mot_fr |-> 0,
     T_max_mot |-> 0, I_mot_hov |-> 0, U_mot_hov |-> 0, P_el_mot_hov |-> 0,
     I_mot_to |-> 0, U_mot_to |-> 0, P_el_mot_to |-> 0,
     N_s_bat |-> 0, U_bat |-> 0, M_bat |-> 0, E_bat |-> 0, C_bat |-> 0,
     I_bat |-> 0, t_hov |-> 0, P_esc |-> 0, M_esc |-> 0, V_esc |-> 0,
     alpha_sep |-> 0, L_arm |-> 0, D_out_arm |-> 0, e_arm |-> 0,
     D_in_arm |-> 0, M_arm |-> 0, M_frame |-> 0, M_total_real |-> 0]

(***************************************************************************)
(* sizing_code, "Design variables": the eight entries of param.            *)
(***************************************************************************)
\* k_os read from the index of k_ND
design_k_os_misread(param) ==
    [Unassigned EXCEPT
        !.beta_pro = param[1], !.k_os = param[3], !.k_ND = param[3],
        !.k_mot = param[4], !.k_speed_mot = param[5], !.k_mb = param[6],
        !.k_vb = param[7], !.k_D = param[8]]

design(param) ==
    [Unassigned EXCEPT
        !.beta_pro = param[1], !.k_os = param[2], !.k_ND = param[3],
        !.k_mot = param[4], !.k_speed_mot = param[5], !.k_mb = param[6],
        !.k_vb = param[7], !.k_D = param[8]]

(***************************************************************************)
(* sizing_code, "Hover & Take-Off thrust".                                 *)
(***************************************************************************)
Thrust(l, s, name) ==
    CASE name = "M_total"   -> l.k_os * s.M_pay * 10
      [] name = "F_pro_hov" -> MulDiv(l.M_total, g, 100 * N_pro)
      [] name = "F_pro_to"  -> MulDiv(l.F_pro_hov, g + s.a_to, g)

(***************************************************************************)
(* sizing_code, "PROPELLER": coefficients in 1e-5, T = C_t.rho.n^2.D^4 and *)
(* P = C_p.rho.n^3.D^5, selection on the take-off thrust at the speed      *)
(* limit ND_max / k_ND (ND, in mm/s); battery voltage estimate             *)
(* 2.33 * P^(1/3).                                                         *)
(***************************************************************************)
\* the static thrust at n = 1 Hz and D = 1 m, C_t.rho, in mN
StaticThrust(C_t) == (C_t * rho_air) \div 1000

\* the squared diameter, in 1e-3 m2
Square(D_pro) == (D_pro * D_pro) \div 1000

\* C_p.rho.(n.D)^3.D^2 with n.D in dm/s
ShaftPower(ND_dm, C_p, D_pro) ==
    ((MulDiv(ND_dm * ND_dm * ND_dm, (C_p * rho_air) \div 100, 100000)
          \div 1000) * Square(D_pro)) \div 1000

Voltage(P) == cbrt(P * 1000) * 233

Propeller(l, s, name) ==
    CASE name = "C_t" -> (8 * (4270 + 144 * l.beta_pro)) \div 10
      [] name = "C_p" -> (972 * l.beta_pro - 1480) \div 10
      [] name = "ND"  -> (ND_max * 100) \div l.k_ND
      [] name = "D_pro" ->
             (sqrt(MulDiv(l.F_pro_to, 1000, StaticThrust(l.C_t))) * 100000)
                 \div l.ND
      [] name = "n_pro_to" -> (l.ND * 1000) \div l.D_pro
      [] name = "Omega_pro_to" -> MulDiv(l.n_pro_to, 6283, 1000)
      [] name = "M_pro" ->
             MulDiv(l.D_pro * l.D_pro, M_pro_ref, D_pro_ref * D_pro_ref)
      [] name = "P_pro_to" -> ShaftPower(l.ND \div 100, l.C_p, l.D_pro)
      [] name = "T_pro_to" ->
             (l.P_pro_to * 10000) \div (l.Omega_pro_to \div 100)
      [] name = "n_pro_hov" ->
             (sqrt(MulDiv(l.F_pro_hov, 1000, StaticThrust(l.C_t))) * 100000)
                 \div Square(l.D_pro)
      [] name = "Omega_pro_hov" -> MulDiv(l.n_pro_hov, 6283, 1000)
      [] name = "P_pro_hov" ->
             ShaftPower(MulDiv(l.n_pro_hov, l.D_pro, 100000), l.C_p, l.D_pro)
      [] name = "T_pro_hov" ->
             (l.P_pro_hov * 10000) \div (l.Omega_pro_hov \div 100)
      [] name = "U_bat_est" -> MulDiv(Voltage(l.P_pro_hov), l.k_vb, 100)

(***************************************************************************)
(* sizing_code, "MOTOR": scaling laws on the nominal torque ratio, torque  *)
(* constant from the take-off speed, U = R.I + K.Omega.  R_mot in uOhm.    *)
(***************************************************************************)
\* 100 * T_nom_mot / T_nom_mot_ref
TorqueRatio(T_nom_mot) == MulDiv(T_nom_mot, 100, T_nom_mot_ref)

MotorVoltage(I, Omega, R_mot, K_mot) ==
    MulDiv(I, R_mot \div 100, 10000) + MulDiv(Omega, K_mot, 1000)

Motor(l, s, name) ==
    CASE name = "T_nom_mot" -> MulDiv(l.T_pro_hov, l.k_mot, 100)
      [] name = "M_mot" -> MulDiv(l.T_nom_mot, M_mot_ref, T_nom_mot_ref)
      [] name = "K_mot" ->
             ((l.U_bat_est * 1000) \div (l.Omega_pro_to \div 100))
                 \div l.k_speed_mot
      [] name = "R_mot" ->
             MulDiv(MulDiv(MulDiv(l.K_mot * l.K_mot, 1000 * R_mot_ref,
                                  K_mot_ref * K_mot_ref),
                           100, TorqueRatio(l.T_nom_mot)),
                    100, sqrt(TorqueRatio(l.T_nom_mot) * 100))
      [] name = "T_mot_fr" ->
             MulDiv(l.T_nom_mot, T_mot_fr_ref, T_nom_mot_ref)
      [] name = "T_max_mot" ->
             MulDiv(l.T_nom_mot, T_max_mot_ref, T_nom_mot_ref)
      [] name = "I_mot_hov" ->
             ((l.T_pro_hov + l.T_mot_fr) * 1000) \div l.K_mot
      [] name = "U_mot_hov" ->
             MotorVoltage(l.I_mot_hov, l.Omega_pro_hov, l.R_mot, l.K_mot)
      [] name = "P_el_mot_hov" ->
             MulDiv(l.U_mot_hov, l.I_mot_hov \div 1000, 1000)
      [] name = "I_mot_to" ->
             ((l.T_pro_to + l.T_mot_fr) * 1000) \div l.K_mot
      [] name = "U_mot_to" ->
             MotorVoltage(l.I_mot_to, l.Omega_pro_to, l.R_mot, l.K_mot)
      [] name = "P_el_mot_to" ->
             MulDiv(l.U_mot_to, l.I_mot_to \div 1000, 1000)

(***************************************************************************)
(* sizing_code, "BATTERY AND ESC": whole number of 3.7 V cells (rounded    *)
(* up), mass from k_mb, energy in kJ, capacity in A.s, 80% of the capacity *)
(* usable in hover, ESC scaled on its corner power.                        *)
(***************************************************************************)
\* numpy.ceil on a count held in thousandths; ceil_down rounds down instead
ceil_down(n) == (n \div 1000) * 1000

ceil(n) == ((n + 999) \div 1000) * 1000

BatteryEsc(l, s, name) ==
    CASE name = "N_s_bat" -> ceil((l.U_bat_est * 1000 + 3699) \div 3700)
      [] name = "U_bat" -> MulDiv(3700, l.N_s_bat, 1000)
      [] name = "M_bat" -> l.k_mb * s.M_pay * 10
      [] name = "E_bat" -> MulDiv(l.M_bat, E_bat_ref \div M_bat_ref, 1000)
      [] name = "C_bat" -> MulDiv(l.E_bat, 10000, l.U_bat \div 100)
      [] name = "I_bat" ->
             MulDiv(l.P_el_mot_hov * N_pro, 10000, l.U_bat \div 100)
      [] name = "t_hov" -> MulDiv(l.C_bat, 40, 3) \div (l.I_bat \div 1000)
      [] name = "P_esc" ->
             MulDiv(l.P_el_mot_to, l.U_bat \div 100, l.U_mot_to \div 100)
      [] name = "M_esc" -> MulDiv(l.P_esc, M_esc_ref, P_esc_ref)
      [] name = "V_esc" -> Voltage(l.P_esc)

(***************************************************************************)
(* sizing_code, "Frame sized from max thrust": arm length from the         *)
(* separation angle 2.pi/N_arm (as 1000.alpha_sep, and sin(pi/N_arm) for   *)
(* N_arm = 4 as 7071/10000), hollow tube sized by the bending stress,      *)
(* arms are 40% of the frame mass.                                         *)
(***************************************************************************)
\* 10000 * (1 - (1 - 2.k_D)^4)
Hollow(k_D) ==
    10000 - ((100 - 2 * k_D) * (100 - 2 * k_D)
             * (100 - 2 * k_D) * (100 - 2 * k_D)) \div 10000

Frame(l, s, name) ==
    CASE name = "alpha_sep" -> (2 * 3142) \div N_arm
      [] name = "L_arm" -> MulDiv(l.D_pro, 10000, 2 * 7071)
      [] name = "D_out_arm" ->
             cbrt(MulDiv(MulDiv(l.F_pro_to, l.L_arm,
                                (3142 * sigma_max) \div 100),
                         100, Hollow(l.k_D)) * 32 * N_pro_arm)
      [] name = "e_arm" -> (l.k_D * l.D_out_arm) \div 100
      [] name = "D_in_arm" -> l.D_out_arm - 2 * l.e_arm
      [] name = "M_arm" ->
             MulDiv(MulDiv(MulDiv(l.D_out_arm * l.D_out_arm
                                   - l.D_in_arm * l.D_in_arm, 3142, 4000),
                           l.L_arm, 1000), rho_s \div 100, 10)
      [] name = "M_frame" -> (l.M_arm * N_arm * 10) \div 4

(***************************************************************************)
(* sizing_code, "Objective and Constraints sum up": M_total_real.          *)
(***************************************************************************)
\* the payload subtracted from the sum of the masses
SumUp_without_payload(l, s, name) ==
    CASE name = "M_total_real" ->
             (l.M_esc + l.M_pro + l.M_mot) * N_pro
                 - s.M_pay * 1000 + l.M_bat + l.M_frame

\* one motor counted instead of one per propeller
SumUp_one_motor(l, s, name) ==
    CASE name = "M_total_real" ->
             (l.M_esc + l.M_pro) * N_pro + l.M_mot
                 + s.M_pay * 1000 + l.M_bat + l.M_frame

SumUp(l, s, name) ==
    CASE name = "M_total_real" ->
             (l.M_esc + l.M_pro + l.M_mot) * N_pro
                 + s.M_pay * 1000 + l.M_bat + l.M_frame

(***************************************************************************)
(* The assignments of the body in the order of the source, stage by stage, *)
(* and their execution in that order.                                      *)
(***************************************************************************)
\* the sum of the masses taken before the frame is sized
Stages_sum_before_frame ==
    <<[stage |-> "Thrust",
       names |-> <<"M_total", "F_pro_hov", "F_pro_to">>],
      [stage |-> "Propeller",
       names |-> <<"C_t", "C_p", "ND", "D_pro", "n_pro_to", "Omega_pro_to",
                   "M_pro", "P_pro_to", "T_pro_to", "n_pro_hov",
                   "Omega_pro_hov", "P_pro_hov", "T_pro_hov", "U_bat_est">>],
      [stage |-> "Motor",
       names |-> <<"T_nom_mot", "M_mot", "K_mot", "R_mot", "T_mot_fr",
                   "T_max_mot", "I_mot_hov", "U_mot_hov", "P_el_mot_hov",
                   "I_mot_to", "U_mot_to", "P_el_mot_to">>],
      [stage |-> "BatteryEsc",
       names |-> <<"N_s_bat", "U_bat", "M_bat", "E_bat", "C_bat", "I_bat",
                   "t_hov", "P_esc", "M_esc", "V_esc">>],
      [stage |-> "SumUp", names |-> <<"M_total_real">>],
      [stage |-> "Frame",
       names |-> <<"alpha_sep", "L_arm", "D_out_arm", "e_arm", "D_in_arm",
                   "M_arm", "M_frame">>]>>

Stages ==
    <<[stage |-> "Thrust",
       names |-> <<"M_total", "F_pro_hov", "F_pro_to">>],
      [stage |-> "Propeller",
       names |-> <<"C_t", "C_p", "ND", "D_pro", "n_pro_to", "Omega_pro_to",
                   "M_pro", "P_pro_to", "T_pro_to", "n_pro_hov",
                   "Omega_pro_hov", "P_pro_hov", "T_pro_hov", "U_bat_est">>],
      [stage |-> "Motor",
       names |-> <<"T_nom_mot", "M_mot", "K_mot", "R_mot", "T_mot_fr",
                   "T_max_mot", "I_mot_hov", "U_mot_hov", "P_el_mot_hov",
                   "I_mot_to", "U_mot_to", "P_el_mot_to">>],
      [stage |-> "BatteryEsc",
       names |-> <<"N_s_bat", "U_bat", "M_bat", "E_bat", "C_bat", "I_bat",
                   "t_hov", "P_esc", "M_esc", "V_esc">>],
      [stage |-> "Frame",
       names |-> <<"alpha_sep", "L_arm", "D_out_arm", "e_arm", "D_in_arm",
                   "M_arm", "M_frame">>],
      [stage |-> "SumUp", names |-> <<"M_total_real">>]>>

RightHandSide(l, s, stage, name) ==
    CASE stage = "Thrust"     -> Thrust(l, s, name)
      [] stage = "Propeller"  -> Propeller(l, s, name)
      [] stage = "Motor"      -> Motor(l, s, name)
      [] stage = "BatteryEsc" -> BatteryEsc(l, s, name)
      [] stage = "Frame"      -> Frame(l, s, name)
      [] stage = "SumUp"      -> SumUp(l, s, name)

\* the locals after the assignments i, i+1, ... of stage k and the stages
\* after it; each assignment reads the locals as they are before it
RECURSIVE Execute(_, _, _, _)
Execute(l, s, k, i) ==
    IF k > Len(Stages) THEN l
    ELSE IF i > Len(Stages[k].names) THEN Execute(l, s, k + 1, 1)
    ELSE CHOOSE after \in
             {Execute(next, s, k, i + 1) :
                 next \in {[l EXCEPT ![Stages[k].names[i]] =
                              RightHandSide(l, s, Stages[k].stage,
                                            Stages[k].names[i])]}} : TRUE

Sizing(param, s) == Execute(design(param), s, 1, 1)

(***************************************************************************)
(* The same body followed statement block by statement block: the locals   *)
(* on entry (the eight design variables assigned, every other name not yet *)
(* bound, whatever u holds for it), and the locals after the assignments   *)
(* i, i+1, ... of stage k alone.                                           *)
(***************************************************************************)
DesignNames ==
    {"beta_pro", "k_os", "k_ND", "k_mot", "k_speed_mot", "k_mb", "k_vb",
     "k_D"}

Unbound == {Unassigned, [n \in DOMAIN Unassigned |-> 7]}

entry(param, u) ==
    [n \in DOMAIN Unassigned |->
        IF n \in DesignNames THEN design(param)[n] ELSE u[n]]

RECURSIVE Assignments(_, _, _, _)
Assignments(l, s, k, i) ==
    IF i > Len(Stages[k].names) THEN l
    ELSE CHOOSE after \in
             {Assignments(next, s, k, i + 1) :
                 next \in {[l EXCEPT ![Stages[k].names[i]] =
                              RightHandSide(l, s, Stages[k].stage,
                                            Stages[k].names[i])]}} : TRUE

\* the voltage and torque constraints exchanged
constraints_reordered(q, s) ==
    <<q.M_total - q.M_total_real,
      q.T_max_mot - q.T_pro_to,
      q.U_bat - q.U_mot_to,
      q.U_bat - q.V_esc,
      q.V_esc - q.U_mot_to,
      IF s.MAX_TIME = TRUE THEN s.MTOW - q.M_total_real
      ELSE q.t_hov - s.t_hov_spec>>

\* the sixth constraint of the other objective mode
constraints_other_mode(q, s) ==
    <<q.M_total - q.M_total_real,
      q.U_bat - q.U_mot_to,
      q.T_max_mot - q.T_pro_to,
      q.U_bat - q.V_esc,
      q.V_esc - q.U_mot_to,
      IF s.MAX_TIME = TRUE THEN q.t_hov - s.t_hov_spec
      ELSE s.MTOW - q.M_total_real>>

constraints(q, s) ==
    IF s.MAX_TIME = TRUE
    THEN <<q.M_total - q.M_total_real,
           q.U_bat - q.U_mot_to,
           q.T_max_mot - q.T_pro_to,
           q.U_bat - q.V_esc,
           q.V_esc - q.U_mot_to,
           s.MTOW - q.M_total_real>>
    ELSE <<q.M_total - q.M_total_real,
           q.U_bat - q.U_mot_to,
           q.T_max_mot - q.T_pro_to,
           q.U_bat - q.V_esc,
           q.V_esc - q.U_mot_to,
           q.t_hov - s.t_hov_spec>>

(***************************************************************************)
(* Floats returned by the evaluator.  The penalized objective adds 1e9     *)
(* times a constraint value to an objective, which exceeds one machine     *)
(* integer; a float is kept as the pair [giga, unit] standing for          *)
(* giga * 1e9 + unit, the giga part in the constraints' unit and the unit  *)
(* part in the objective's unit (g, or 1e-6/min for 1./t_hov).             *)
(***************************************************************************)
Float(n) == [giga |-> 0, unit |-> n]

\* the weight 1e9 left out: P = P - C
Times1(C) == [giga |-> 0, unit |-> C]

Times1e9(C) == [giga |-> C, unit |-> 0]

Plus(a, b) == [giga |-> a.giga + b.giga, unit |-> a.unit + b.unit]

Minus(a, b) == [giga |-> a.giga - b.giga, unit |-> a.unit - b.unit]

Less(a, b) == a.giga < b.giga \/ (a.giga = b.giga /\ a.unit < b.unit)

\* 1./t_hov, in 1e-6/min, for t_hov # 0
Inverse(t_hov) == 1000000000 \div t_hov

\* 1./t_hov for t_hov = 0: the quantities computed from a numpy array are
\* numpy floats, whose division by zero warns and gives inf; inf plus a
\* penalty is inf
inf == [giga |-> 0, unit |-> 0, inf |-> TRUE]

\* the two objectives exchanged
Obj_swapped(q, s) ==
    IF s.MAX_TIME = TRUE
    THEN [type |-> "float", value |-> <<Float(q.M_total_real)>>]
    ELSE [type |-> "float", value |-> <<Float(Inverse(q.t_hov))>>]

(***************************************************************************)
(* sizing_code, branch arg == 'Obj'.                                       *)
(***************************************************************************)
Obj(q, s) ==
    IF s.MAX_TIME = TRUE
    THEN IF q.t_hov = 0
         THEN [type |-> "float", value |-> <<inf>>]
         ELSE [type |-> "float", value |-> <<Float(Inverse(q.t_hov))>>]
    ELSE [type |-> "float", value |-> <<Float(q.M_total_real)>>]

(***************************************************************************)
(* sizing_code, branch arg == 'ObjP': P = 0., then P = P - 1e9*C for each  *)
(* C < 0 of the constraints, added to the objective.                       *)
(***************************************************************************)
\* P is not reset on entry: it keeps the value of the previous call
P_init_stale(fr) == fr.P

P_init(fr) == Float(0)

\* the test C < 0. is missing: every constraint is penalised
RECURSIVE Penalisation_unsigned(_, _)
Penalisation_unsigned(P, cs) ==
    IF cs = <<>> THEN P
    ELSE Penalisation_unsigned(Minus(P, Times1e9(Head(cs))), Tail(cs))

RECURSIVE Penalisation(_, _)
Penalisation(P, cs) ==
    IF cs = <<>> THEN P
    ELSE Penalisation(IF Head(cs) < 0 THEN Minus(P, Times1e9(Head(cs)))
                      ELSE P,
                      Tail(cs))

ObjP(q, s, P) ==
    IF s.MAX_TIME = TRUE
    THEN IF q.t_hov = 0
         THEN [type |-> "float", value |-> <<inf>>]
         ELSE [type |-> "float",
               value |-> <<Plus(Float(Inverse(q.t_hov)), P)>>]
    ELSE [type |-> "float", value |-> <<Plus(Float(q.M_total_real), P)>>]

(***************************************************************************)
(* sizing_code, branch arg == 'Prt': the rows of the data frame of types   *)
(* 'Optimization', 'Constraints' and 'Objective' (rows are indexed from 1, *)
(* constraints[0] is cs[1]).                                               *)
(***************************************************************************)
Row(type, name, value, comment) ==
    [Type |-> type, Name |-> name, Value |-> value, Comment |-> comment]

df_optimization(x) ==
    <<Row("Optimization", "beta_pro", x.beta_pro, "ratio pitch-to-diameter"),
      Row("Optimization", "k_os", x.k_os, "over sizing coefficient on the load mass"),
      Row("Optimization", "k_ND", x.k_ND, "over sizing coefficient on the propeller speed"),
      Row("Optimization", "k_mot", x.k_mot, "over sizing coefficient on the motor torque"),
      Row("Optimization", "k_speed_mot", x.k_speed_mot, "over sizing coefficient on the propeller speed"),
      Row("Optimization", "k_mb", x.k_mb, "over sizing coefficient on the battery load mass"),
      Row("Optimization", "k_vb", x.k_vb, "over sizing coefficient for the battery voltage"),
      Row("Optimization", "k_D", x.k_D, "aspect ratio e/c (thickness/side) for the beam of the frame")>>

df_constraints(cs, s) ==
    <<Row("Constraints", "Const 0", cs[1], "M_total-M_total_real"),
      Row("Constraints", "Const 1", cs[2], "U_bat-U_mot_to"),
      Row("Constraints", "Const 2", cs[3], "T_max_mot-T_pro_to"),
      Row("Constraints", "Const 3", cs[4], "U_bat-V_esc"),
      Row("Constraints", "Const 4", cs[5], "V_esc-U_mot_to"),
      IF s.MAX_TIME = FALSE
      THEN Row("Constraints", "Const 5", cs[5], "t_hov-t_hov_spec")
      ELSE Row("Constraints", "Const 5", cs[5], "MTOW-M_total_real")>>

df_objective(q) ==
    <<Row("Objective", "Objective", q.M_total_real, "Total mass")>>

df_battery(q) ==
    <<Row("Battery & ESC", "N_s_bat", ceil(q.N_s_bat),
          "Number of battery cells "),
      Row("Battery & ESC", "U_bat", q.U_bat, "Battery voltage ")>>

Prt(q, s) ==
    [type |-> "function",
     value |-> df_optimization(q) \o df_constraints(constraints(q, s), s)
                   \o df_objective(q) \o df_battery(q)]

\* the final branch returns the objective instead of the constraints
Const_objective(q, s) ==
    [type |-> "float", value |-> <<Float(q.M_total_real)>>]

(***************************************************************************)
(* sizing_code, final branch: return constraints.                          *)
(***************************************************************************)
Const(q, s) == [type |-> "list", value |-> constraints(q, s)]

(***************************************************************************)
(* Cell "Initial values" and the optimization cell: the initial vector,    *)
(* the three lambdas (as the evaluator call each one makes), the bounds.   *)
(***************************************************************************)
parameters == <<33, 320, 120, 100, 120, 100, 100, 1>>

contrainte(x) == [param |-> x, arg |-> "Const"]

objectif(x) == [param |-> x, arg |-> "Obj"]

objectifP(x) == [param |-> x, arg |-> "ObjP"]

bounds ==
    <<<<30, 60>>, <<100, 40000>>, <<100, 10000>>, <<100, 10000>>,
      <<100, 40000>>, <<10, 10000>>, <<100, 500>>, <<10, 99>>>>

InBounds(x, b) == \A i \in 1..Len(b) : b[i][1] <= x[i] /\ x[i] <= b[i][2]

Clip(x, b) ==
    [i \in 1..Len(b) |->
        IF x[i] < b[i][1] THEN b[i][1]
        ELSE IF x[i] > b[i][2] THEN b[i][2] ELSE x[i]]

(***************************************************************************)
(* The vectors a search proposes: the library draws them inside the box    *)
(* given as bounds.  Candidates is the finite sample of vectors explored.  *)
(***************************************************************************)
Candidates ==
    {<<30, 100, 100, 100, 100, 10, 100, 10>>,
     <<33, 320, 120, 100, 120, 100, 100, 10>>,
     <<30, 200, 120, 130, 200, 10, 200, 10>>,
     <<30, 320, 100, 130, 150, 50, 150, 20>>,
     <<45, 400, 150, 130, 150, 150, 150, 20>>,
     <<60, 400, 100, 100, 400, 100, 500, 99>>}

Proposals(b) == {x \in Candidates : InBounds(x, b)}

(***************************************************************************)
(* scipy.optimize.fmin_slsqp(func=objectif, x0=parameters, bounds=bounds,  *)
(* f_ieqcons=contrainte, ...): the callables it is given, and the first    *)
(* point it evaluates: x0 as passed, or x0 clipped to the bounds,          *)
(* depending on the version of the library.                                *)
(***************************************************************************)
slsqp_calls(x) == {objectif(x), contrainte(x)}

slsqp_x0 == {parameters, Clip(parameters, bounds)}

(***************************************************************************)
(* scipy.optimize.differential_evolution(func=objectifP, bounds=bounds,    *)
(* ...): the callable it is given.                                         *)
(***************************************************************************)
\* the global strategy is handed the plain objective
de_calls_plain(x) == {objectif(x)}

de_calls(x) == {objectifP(x)}

(***************************************************************************)
(* The body of sizing_code on a given vector and specification; the        *)
(* evaluations of the explored vectors are tabulated once.                 *)
(***************************************************************************)
Specifications ==
    {[M_pay |-> M_pay, a_to |-> a_to, t_hov_spec |-> t_hov_spec,
      MTOW |-> MTOW, MAX_TIME |-> b] : b \in BOOLEAN}

(***************************************************************************)
(* Direct calls of sizing_code: the vectors and the values of arg it is    *)
(* given.  ZeroBattery has k_mb = 0., Sweep varies k_os alone around the   *)
(* initial vector and around a light design.                               *)
(***************************************************************************)
ZeroBattery == <<33, 320, 120, 100, 120, 0, 100, 10>>

SweepBases == {parameters, <<30, 200, 100, 130, 200, 10, 150, 10>>}

KosSweep == {150, 320, 400}

WithKos(x, k_os) == [x EXCEPT ![2] = k_os]

Sweep == {WithKos(b, k) : b \in SweepBases, k \in KosSweep}

Inputs == Candidates \cup slsqp_x0 \cup Sweep \cup {ZeroBattery}

Arguments == {"Obj", "ObjP", "Prt", "Const", "obj"}

\* the specification with another payload
WithPayload(s, kg) == [s EXCEPT !.M_pay = kg]

\* edits of the cell "Specifications" that leave a value not > 0
Invalid ==
    {[M_pay |-> M_pay, a_to |-> a_to, t_hov_spec |-> 0,
      MTOW |-> MTOW, MAX_TIME |-> FALSE],
     [M_pay |-> M_pay, a_to |-> a_to, t_hov_spec |-> t_hov_spec,
      MTOW |-> 0, MAX_TIME |-> TRUE]}

\* an edit of the cell "Specifications" that keeps every value > 0: the
\* mass is minimised for a hover time of 5 min
Edited ==
    {[M_pay |-> M_pay, a_to |-> a_to, t_hov_spec |-> 5000,
      MTOW |-> MTOW, MAX_TIME |-> FALSE]}

Tabulated ==
    {[param |-> x, s |-> s, q |-> Sizing(x, s)] :
        x \in Inputs,
        s \in Specifications \cup Invalid \cup Edited
                \cup {WithPayload(t, 2 * t.M_pay) :
                          t \in Specifications \cup Edited}}

Evaluation(param, s) ==
    IF \E e \in Tabulated : e.param = param /\ e.s = s
    THEN (CHOOSE e \in Tabulated : e.param = param /\ e.s = s).q
    ELSE Sizing(param, s)

(***************************************************************************)
(* What a call leaves of the array it was passed and of the global names   *)
(* it reads.  sizing_code has no global statement and assigns no element   *)
(* of param: every name it assigns is one of its own locals.               *)
(***************************************************************************)
\* MAX_TIME declared global and assigned by the function
left_rebound(param, s) ==
    [param |-> param, globals |-> [s EXCEPT !.MAX_TIME = TRUE]]

left(param, s) == [param |-> param, globals |-> s]

(***************************************************************************)
(* sizing_code(param, arg): what it returns, the value its local P had     *)
(* when a penalized evaluation last returned (fr on entry), how many       *)
(* widgets it displayed, and what it leaves of param and of the globals.   *)
(***************************************************************************)
sizing_code(param, arg, s, fr) ==
    LET q == Evaluation(param, s)
        P == Penalisation(P_init(fr), constraints(q, s))
    IN IF arg = "Obj"
       THEN [ret |-> Obj(q, s), locals |-> fr, displayed |-> 0,
             left |-> left(param, s)]
       ELSE IF arg = "ObjP"
       THEN [ret |-> ObjP(q, s, P), locals |-> [P |-> P], displayed |-> 0,
             left |-> left(param, s)]
       ELSE IF arg = "Prt"
       THEN [ret |-> Prt(q, s), locals |-> fr, displayed |-> 1,
             left |-> left(param, s)]
       ELSE [ret |-> Const(q, s), locals |-> fr, displayed |-> 0,
             left |-> left(param, s)]

(***************************************************************************)
(* Notebook 05, SizingCode(param, arg): the tank of sides x, y and height  *)
(* z.  Lengths are in dm, so the surface is in dm^2, the volume in dm^3    *)
(* (.2 m^3 is 200) and the developed length 1.5 m is 15.                   *)
(***************************************************************************)
volume(x, y, z) == x * y * z

surface(x, y, z) == x * y + 2 * (x + y) * z

\* the volume constraint written the other way round
tank_constraints_reversed(x, y, z) ==
    <<200 - volume(x, y, z), 15 - (2 * z + x), 15 - (2 * z + y)>>

tank_constraints(x, y, z) ==
    <<volume(x, y, z) - 200, 15 - (2 * z + x), 15 - (2 * z + y)>>

tank_df(x, y, z) ==
    <<Row("Objective", "Surface", surface(x, y, z), "Mini surface"),
      Row("Constraints", "Const 1", tank_constraints(x, y, z)[1], "Volume"),
      Row("Constraints", "Const 2", tank_constraints(x, y, z)[2],
          "Developped length"),
      Row("Constraints", "Const 3", tank_constraints(x, y, z)[3],
          "Developped length"),
      Row("Variables", "x", x, "x"),
      Row("Variables", "y", y, "y"),
      Row("Variables", "z", z, "z"),
      Row("Tank", "Volume", volume(x, y, z), "Tank volume"),
      Row("Tank", "Surface", surface(x, y, z), "Tank surface"),
      Row("Tank", "Developped length", 2 * z + x, "x length"),
      Row("Tank", "Developped length", 2 * z + y, "y length")>>

\* the tank example given the branch 'ObjP' of sizing_code
SizingCode_penalized(param, arg) ==
    LET x == param[1]
        y == param[2]
        z == param[3]
    IN IF arg \in {"Obj", "ObjP"}
       THEN [ret |-> [type |-> "float", value |-> <<surface(x, y, z)>>],
             displayed |-> 0]
       ELSE IF arg = "Prt"
       THEN [ret |-> [type |-> "function", value |-> tank_df(x, y, z)],
             displayed |-> 1]
       ELSE [ret |-> [type |-> "list", value |-> tank_constraints(x, y, z)],
             displayed |-> 0]

SizingCode(param, arg) ==
    LET x == param[1]
        y == param[2]
        z == param[3]
    IN IF arg = "Obj"
       THEN [ret |-> [type |-> "float", value |-> <<surface(x, y, z)>>],
             displayed |-> 0]
       ELSE IF arg = "Prt"
       THEN [ret |-> [type |-> "function", value |-> tank_df(x, y, z)],
             displayed |-> 1]
       ELSE [ret |-> [type |-> "list", value |-> tank_constraints(x, y, z)],
             displayed |-> 0]

\* vectors the tank example is called with: its initial vector (1, 1, 1),
\* the corner (.1, .1, .1) of its bounds, a point in between and a point
\* that satisfies the three constraints
TankInputs == {<<10, 10, 10>>, <<1, 1, 1>>, <<6, 6, 5>>, <<9, 9, 3>>}

(***************************************************************************)
(* Notebook 05 at the precision of its recorded output.  A length, a       *)
(* surface or a volume is a decimal with sixteen digits after the point,   *)
(* held as five limbs of four digits, the least significant first:         *)
(* decimal(1, 5000, 0, 0, 0) is 1.5.  A product keeps sixteen digits.      *)
(***************************************************************************)
decimal(units, d1, d2, d3, d4) == <<d4, d3, d2, d1, units>>

RECURSIVE Carry(_, _, _)
Carry(c, k, r) ==
    IF k > Len(c) THEN <<r>>
    ELSE <<(c[k] + r) % 10000>> \o Carry(c, k + 1, (c[k] + r) \div 10000)

RECURSIVE Borrow(_, _, _, _)
Borrow(a, b, k, r) ==
    IF k > Len(a) THEN <<>>
    ELSE LET n == a[k] - b[k] - r
         IN <<IF n < 0 THEN n + 10000 ELSE n>>
                \o Borrow(a, b, k + 1, IF n < 0 THEN 1 ELSE 0)

RECURSIVE Partial(_, _, _, _)
Partial(a, b, k, i) ==
    IF i = 0 THEN 0
    ELSE Partial(a, b, k, i - 1)
             + (IF k + 1 - i \in 1..Len(b) THEN a[i] * b[k + 1 - i] ELSE 0)

\* a + b
float_add(a, b) == SubSeq(Carry([k \in 1..5 |-> a[k] + b[k]], 1, 0), 1, 5)

\* a * b
float_mul(a, b) ==
    SubSeq(Carry([k \in 1..9 |-> Partial(a, b, k, 5)], 1, 0), 5, 9)

\* a < b
float_lt(a, b) ==
    \E k \in 1..5 : a[k] < b[k] /\ \A j \in (k + 1)..5 : a[j] = b[j]

\* a - b, as a sign and a magnitude
float_sub(a, b) ==
    IF float_lt(a, b) THEN [neg |-> TRUE, mag |-> Borrow(b, a, 1, 0)]
    ELSE [neg |-> FALSE, mag |-> Borrow(a, b, 1, 0)]

float_volume(x, y, z) == float_mul(float_mul(x, y), z)

float_surface(x, y, z) ==
    float_add(float_mul(x, y),
              float_mul(float_add(float_add(x, y), float_add(x, y)), z))

\* the volume constraint written the other way round
float_constraints_reversed(x, y, z) ==
    <<float_sub(decimal(0, 2000, 0, 0, 0), float_volume(x, y, z)),
      float_sub(decimal(1, 5000, 0, 0, 0), float_add(float_add(z, z), x)),
      float_sub(decimal(1, 5000, 0, 0, 0), float_add(float_add(z, z), y))>>

float_constraints(x, y, z) ==
    <<float_sub(float_volume(x, y, z), decimal(0, 2000, 0, 0, 0)),
      float_sub(decimal(1, 5000, 0, 0, 0), float_add(float_add(z, z), x)),
      float_sub(decimal(1, 5000, 0, 0, 0), float_add(float_add(z, z), y))>>

float_df(x, y, z) ==
    <<Row("Objective", "Surface", float_surface(x, y, z), "Mini surface"),
      Row("Constraints", "Const 1", float_constraints(x, y, z)[1], "Volume"),
      Row("Constraints", "Const 2", float_constraints(x, y, z)[2],
          "Developped length"),
      Row("Constraints", "Const 3", float_constraints(x, y, z)[3],
          "Developped length"),
      Row("Variables", "x", x, "x"),
      Row("Variables", "y", y, "y"),
      Row("Variables", "z", z, "z")>>

float_SizingCode(param, arg) ==
    LET x == param[1]
        y == param[2]
        z == param[3]
    IN IF arg = "Obj"
       THEN [ret |-> [type |-> "float", value |-> <<float_surface(x, y, z)>>],
             displayed |-> 0]
       ELSE IF arg = "Prt"
       THEN [ret |-> [type |-> "function", value |-> float_df(x, y, z)],
             displayed |-> 1]
       ELSE [ret |-> [type |-> "list", value |-> float_constraints(x, y, z)],
             displayed |-> 0]

(***************************************************************************)
(* Notebook 05, the optimization cell and its recorded output.             *)
(***************************************************************************)
tank_parameters ==
    <<decimal(1, 0, 0, 0, 0), decimal(1, 0, 0, 0, 0), decimal(1, 0, 0, 0, 0)>>

tank_bounds ==
    <<<<decimal(0, 1000, 0, 0, 0), decimal(1, 0, 0, 0, 0)>>,
      <<decimal(0, 1000, 0, 0, 0), decimal(1, 0, 0, 0, 0)>>,
      <<decimal(0, 1000, 0, 0, 0), decimal(2, 5000, 0, 0, 0)>>>>

\* acc=1e-12
acc == decimal(0, 0, 0, 1, 0)

\* "Current function value: 1.6286505699551932"
current_function_value == decimal(1, 6286, 5056, 9955, 1932)

\* points of the last iterations of fmin_slsqp, around x = y = 2z =
\* 0.73680629972...: three whose surface is the recorded value, one a
\* little larger whose volume is .2, one a little smaller
Around ==
    {<<decimal(0, 7368, 629, 9727, 6815), decimal(0, 7368, 629, 9727, 6813),
       decimal(0, 3684, 314, 9863, 8406)>>,
     <<decimal(0, 7368, 630, 962, 2491), decimal(0, 7368, 629, 9727, 6813),
       decimal(0, 3684, 314, 9246, 5568)>>,
     <<decimal(0, 7368, 629, 9727, 6816), decimal(0, 7368, 629, 9727, 6816),
       decimal(0, 3684, 314, 9863, 8404)>>,
     <<decimal(0, 7368, 629, 9728, 772), decimal(0, 7368, 629, 9728, 772),
       decimal(0, 3684, 314, 9864, 389)>>,
     <<decimal(0, 7368, 629, 9000, 0), decimal(0, 7368, 629, 9000, 0),
       decimal(0, 3684, 314, 9500, 0)>>}

\* tenths and hundredths as decimals
tenths(n) == decimal(n \div 10, (n % 10) * 1000, 0, 0, 0)

hundredths(n) == decimal(n \div 100, (n % 100) * 100, 0, 0, 0)

\* points fmin_slsqp evaluates on its way: inside the bounds
TankProposals ==
    {<<tenths(8), tenths(8), tenths(4)>>} \cup Around

tank_objectif(x) == [param |-> x, arg |-> "Obj"]

tank_contrainte(x) == [param |-> x, arg |-> "Const"]

tank_calls(x) == {tank_objectif(x), tank_contrainte(x)}

(***************************************************************************)
(* One call of sizing_code by the driver, recorded in the history.         *)
(***************************************************************************)
Call(c, phase) ==
    LET r == sizing_code(c.param, c.arg, specification, locals)
    IN /\ calls' = Append(calls, [param |-> c.param, arg |-> c.arg,
                                  ret |-> r.ret, phase |-> phase,
                                  left |-> r.left.param])
       /\ locals' = r.locals
       /\ shown' = shown + r.displayed
       /\ specification' = r.left.globals

SearchCalls == {i \in 1..Len(calls) : calls[i].phase = "search"}

\* the evaluated point of least penalized objective (ties: any of them)
Best ==
    {calls[i].param : i \in {j \in SearchCalls :
        \A k \in SearchCalls :
            ~Less(calls[k].ret.value[1], calls[j].ret.value[1])}}

(***************************************************************************)
(* How a strategy ends.  fmin_slsqp (iter=1500, acc=1e-12, iprint left at  *)
(* 1) prints its exit message and returns the array of its last iterate    *)
(* whatever the exit mode; differential_evolution (tol=1e-12) returns a    *)
(* result object whose fields success and message tell how it ended.  The  *)
(* budget of the library is MaxEvals here.                                 *)
(***************************************************************************)
slsqp_converged == "Optimization terminated successfully."

slsqp_limit == "Iteration limit exceeded"

de_converged == "Optimization terminated successfully."

de_limit == "Maximum number of iterations has been exceeded."

\* the exit messages fmin_slsqp can end with after n evaluations
slsqp_exit(n) ==
    IF n < MaxEvals THEN {slsqp_converged} ELSE {slsqp_converged, slsqp_limit}

\* the messages differential_evolution can end with after n evaluations
de_exit(n) ==
    IF n < MaxEvals THEN {de_converged} ELSE {de_converged, de_limit}

\* the driver inspects the outcome and stops the run when it is a failure
after_search_checked(message) ==
    IF message \in {slsqp_limit, de_limit} THEN "raised" ELSE "final_obj"

\* the statements after the optimization run whatever the outcome
after_search(message) == "final_obj"

\* the final cell evaluates the initial vector again
final_vector_initial(slsqp, res) == parameters

\* the vector of the final cell: result, or result.x
final_vector(slsqp, res) == IF slsqp = TRUE THEN res ELSE res.x

(***************************************************************************)
(* The notebook run: initial report, optimization, final cell.             *)
(***************************************************************************)
Init ==
    /\ specification \in Specifications
    /\ SLSQP \in BOOLEAN
    /\ pc = "initial"
    /\ result = <<>>
    /\ nEval = 0
    /\ calls = <<>>
    /\ locals = [P |-> Float(0)]
    /\ shown = 0
    /\ stdout = <<>>
    /\ frame = <<>>

\* sizing_code(parameters,'Prt') before the optimization
InitialReport ==
    /\ pc = "initial"
    /\ Call([param |-> parameters, arg |-> "Prt"], "initial")
    /\ pc' = "optimize"
    /\ UNCHANGED <<SLSQP, result, nEval, stdout, frame>>

\* fmin_slsqp evaluates func or f_ieqcons at its starting point
SlsqpStart ==
    /\ pc = "optimize"
    /\ SLSQP = TRUE
    /\ \E x \in slsqp_x0 : \E c \in slsqp_calls(x) : Call(c, "search")
    /\ nEval' = 1
    /\ pc' = "search"
    /\ UNCHANGED <<SLSQP, result, stdout, frame>>

\* fmin_slsqp evaluates func or f_ieqcons at a further point
SlsqpIterate ==
    /\ pc = "search"
    /\ SLSQP = TRUE
    /\ nEval < MaxEvals
    /\ \E x \in Proposals(bounds) : \E c \in slsqp_calls(x) :
           Call(c, "search")
    /\ nEval' = nEval + 1
    /\ UNCHANGED <<SLSQP, pc, result, stdout, frame>>

\* fmin_slsqp returns the array of a point it evaluated
SlsqpReturn ==
    /\ pc = "search"
    /\ SLSQP = TRUE
    /\ \E i \in SearchCalls : result' = calls[i].param
    /\ \E m \in slsqp_exit(nEval) :
           /\ stdout' = Append(stdout, m)
           /\ pc' = after_search(m)
    /\ UNCHANGED <<specification, SLSQP, nEval, calls, locals, shown,
                   frame>>

\* differential_evolution evaluates func on a member of its population
DeEvaluate ==
    /\ pc \in {"optimize", "search"}
    /\ SLSQP # TRUE
    /\ nEval < MaxEvals
    /\ \E x \in Proposals(bounds) : \E c \in de_calls(x) : Call(c, "search")
    /\ nEval' = nEval + 1
    /\ pc' = "search"
    /\ UNCHANGED <<SLSQP, result, stdout, frame>>

\* differential_evolution returns its result object, x the best member
DeReturn ==
    /\ pc = "search"
    /\ SLSQP # TRUE
    /\ \E x \in Best : \E m \in de_exit(nEval) :
           /\ result' = [x |-> x, success |-> (m = de_converged),
                         message |-> m]
           /\ pc' = after_search(m)
    /\ UNCHANGED <<specification, SLSQP, nEval, calls, locals, shown,
                   stdout, frame>>

\* final cell, first statement: sizing_code(result,'Obj')
FinalObj ==
    /\ pc = "final_obj"
    /\ Call([param |-> final_vector(SLSQP, result), arg |-> "Obj"], "final")
    /\ pc' = "final_prt"
    /\ UNCHANGED <<SLSQP, result, nEval, stdout, frame>>

\* final cell, second statement: sizing_code(result,'Prt')
FinalPrt ==
    /\ pc = "final_prt"
    /\ Call([param |-> final_vector(SLSQP, result), arg |-> "Prt"], "final")
    /\ pc' = "done"
    /\ UNCHANGED <<SLSQP, result, nEval, stdout, frame>>

Next ==
    \/ InitialReport
    \/ SlsqpStart
    \/ SlsqpIterate
    \/ SlsqpReturn
    \/ DeEvaluate
    \/ DeReturn
    \/ FinalObj
    \/ FinalPrt

Spec == Init /\ [][Next]_vars

(***************************************************************************)
(* The evaluators called directly, as from a cell of the notebooks.        *)
(***************************************************************************)
EvalInit ==
    /\ specification \in Specifications \cup Edited
    /\ SLSQP = FALSE
    /\ pc = "call"
    /\ result = <<>>
    /\ nEval = 0
    /\ calls = <<>>
    /\ locals = [P |-> Float(0)]
    /\ shown = 0
    /\ stdout = <<>>
    /\ frame = <<>>

\* sizing_code(param, arg)
Evaluate ==
    /\ pc = "call"
    /\ Len(calls) < MaxCalls
    /\ \E x \in Inputs : \E a \in Arguments :
           Call([param |-> x, arg |-> a], "direct")
    /\ UNCHANGED <<SLSQP, pc, result, nEval, stdout, frame>>

\* SizingCode(param, arg) of the tank example
EvaluateTank ==
    /\ pc = "call"
    /\ Len(calls) < MaxCalls
    /\ \E x \in TankInputs : \E a \in Arguments :
           LET r == SizingCode(x, a)
           IN /\ calls' = Append(calls, [param |-> x, arg |-> a,
                                         ret |-> r.ret, phase |-> "tank",
                                         left |-> x])
              /\ shown' = shown + r.displayed
    /\ UNCHANGED <<specification, SLSQP, pc, result, nEval, locals, stdout,
                   frame>>

EvalNext == Evaluate \/ EvaluateTank

EvalSpec == EvalInit /\ [][EvalNext]_vars

(***************************************************************************)
(* One call of sizing_code followed stage by stage.  frame holds the array *)
(* passed, the locals and the stages run so far.                           *)
(***************************************************************************)
StageInit ==
    /\ specification \in Specifications
    /\ SLSQP = FALSE
    /\ pc = "enter"
    /\ result = <<>>
    /\ nEval = 0
    /\ calls = <<>>
    /\ locals = [P |-> Float(0)]
    /\ shown = 0
    /\ stdout = <<>>
    /\ frame = <<>>

\* the call is entered: the design variables are read from param
Enter ==
    /\ pc = "enter"
    /\ \E x \in Inputs : \E u \in Unbound :
           frame' = [param |-> x, l |-> entry(x, u), trace |-> <<>>]
    /\ pc' = "stages"
    /\ UNCHANGED <<specification, SLSQP, result, nEval, calls, locals, shown,
                   stdout>>

\* the statements of the next stage are executed
Stage ==
    /\ pc = "stages"
    /\ Len(frame.trace) < Len(Stages)
    /\ LET k == Len(frame.trace) + 1
       IN frame' = [frame EXCEPT
                       !.l = Assignments(frame.l, specification, k, 1),
                       !.trace = Append(@, Stages[k].stage)]
    /\ UNCHANGED <<specification, SLSQP, pc, result, nEval, calls, locals,
                   shown, stdout>>

\* the return selection
Leave ==
    /\ pc = "stages"
    /\ Len(frame.trace) = Len(Stages)
    /\ \E a \in Arguments :
           Call([param |-> frame.param, arg |-> a], "stepped")
    /\ pc' = "returned"
    /\ UNCHANGED <<SLSQP, result, nEval, stdout, frame>>

StageNext == Enter \/ Stage \/ Leave

StageSpec == StageInit /\ [][StageNext]_vars

(***************************************************************************)
(* The optimization cell of notebook 05: fmin_slsqp on the tank, then the  *)
(* objective and the report of the returned point.                         *)
(***************************************************************************)
TankCall(c, phase) ==
    LET r == float_SizingCode(c.param, c.arg)
    IN /\ calls' = Append(calls, [param |-> c.param, arg |-> c.arg,
                                  ret |-> r.ret, phase |-> phase,
                                  left |-> c.param])
       /\ shown' = shown + r.displayed

TankInit ==
    /\ specification \in {s \in Specifications : s.MAX_TIME = FALSE}
    /\ SLSQP = TRUE
    /\ pc = "tank_optimize"
    /\ result = <<>>
    /\ nEval = 0
    /\ calls = <<>>
    /\ locals = [P |-> Float(0)]
    /\ shown = 0
    /\ stdout = <<>>
    /\ frame = <<>>

\* fmin_slsqp evaluates func or f_ieqcons at its starting point
TankStart ==
    /\ pc = "tank_optimize"
    /\ \E c \in tank_calls(tank_parameters) : TankCall(c, "search")
    /\ nEval' = 1
    /\ pc' = "tank_search"
    /\ UNCHANGED <<specification, SLSQP, result, locals, stdout, frame>>

\* fmin_slsqp evaluates func or f_ieqcons at a further point
TankIterate ==
    /\ pc = "tank_search"
    /\ nEval < MaxEvals
    /\ \E x \in TankProposals : \E c \in tank_calls(x) : TankCall(c, "search")
    /\ nEval' = nEval + 1
    /\ UNCHANGED <<specification, SLSQP, pc, result, locals, stdout, frame>>

\* fmin_slsqp prints its exit message with the function value of the point
\* it returns, the recorded one
TankReturn ==
    /\ pc = "tank_search"
    /\ \E i \in SearchCalls :
           /\ calls[i].arg = "Obj"
           /\ calls[i].ret.value = <<current_function_value>>
           /\ result' = calls[i].param
           /\ stdout' = <<slsqp_converged, calls[i].ret.value[1]>>
    /\ pc' = "tank_final_obj"
    /\ UNCHANGED <<specification, SLSQP, nEval, calls, locals, shown, frame>>

\* print(SizingCode(result, 'Obj'))
TankFinalObj ==
    /\ pc = "tank_final_obj"
    /\ TankCall([param |-> result, arg |-> "Obj"], "final")
    /\ stdout' = Append(stdout,
                        float_SizingCode(result, "Obj").ret.value[1])
    /\ pc' = "tank_final_prt"
    /\ UNCHANGED <<specification, SLSQP, result, nEval, locals, frame>>

\* SizingCode(result, 'Prt')
TankFinalPrt ==
    /\ pc = "tank_final_prt"
    /\ TankCall([param |-> result, arg |-> "Prt"], "final")
    /\ pc' = "tank_done"
    /\ UNCHANGED <<specification, SLSQP, result, nEval, locals, stdout,
                   frame>>

TankNext ==
    \/ TankStart
    \/ TankIterate
    \/ TankReturn
    \/ TankFinalObj
    \/ TankFinalPrt

TankSpec == TankInit /\ [][TankNext]_vars

(***************************************************************************)
(* The notebook run after an edit of the cell "Specifications".            *)
(***************************************************************************)
ConfigInit ==
    /\ specification \in Specifications \cup Invalid
    /\ SLSQP \in BOOLEAN
    /\ pc = "initial"
    /\ result = <<>>
    /\ nEval = 0
    /\ calls = <<>>
    /\ locals = [P |-> Float(0)]
    /\ shown = 0
    /\ stdout = <<>>
    /\ frame = <<>>

ConfigSpec == ConfigInit /\ [][Next]_vars

TypeOK ==
    /\ pc \in {"initial", "optimize", "search", "final_obj", "final_prt",
              "done", "call", "enter", "stages", "returned",
              "tank_optimize", "tank_search", "tank_final_obj",
              "tank_final_prt", "tank_done"}
    /\ Len(stdout) <= 3
    /\ nEval \in 0..(MaxEvals + 1)
    /\ shown \in 0..2
    /\ Len(calls) <= MaxEvals + 4

(***************************************************************************)
(* Properties.  Q(i) is the evaluation the i-th recorded call made.        *)
(***************************************************************************)
Calls == 1..Len(calls)

Q(i) == Evaluation(calls[i].param, specification)

RECURSIVE NegativeMagnitudes(_, _)
NegativeMagnitudes(cs, k) ==
    IF k = 0 THEN 0
    ELSE NegativeMagnitudes(cs, k - 1) + (IF cs[k] < 0 THEN -cs[k] ELSE 0)

RowNamed(df, name) == CHOOSE r \in {df[k] : k \in 1..Len(df)} : r.Name = name

\* C1: two calls of sizing_code with the same design vector and the same
\* mode, under the unchanged specification, return the same result,
\* whatever calls were made in between.
C1_Deterministic ==
    \A i \in Calls : \A j \in Calls :
        (calls[i].param = calls[j].param /\ calls[i].arg = calls[j].arg)
            => calls[i].ret = calls[j].ret

\* a penalized evaluation repeated after a penalized evaluation of another,
\* infeasible, vector
C1_Witness ==
    \E i \in Calls : \E k \in Calls : \E j \in Calls :
        /\ i < k /\ k < j
        /\ calls[i].arg = "ObjP" /\ calls[j].arg = "ObjP"
        /\ calls[k].arg = "ObjP"
        /\ calls[i].param = calls[j].param
        /\ calls[k].param # calls[i].param
        /\ calls[k].ret.value[1].giga > 0

\* C2: the mode only selects the view: the constraint view, the penalized
\* objective and the rows 'Const 0'..'Const 5' and 'Objective' of the report
\* are built from the same six constraints and the same objective that the
\* constraint view and the objective view return for that vector.
C2_ViewsAgree ==
    \A i \in Calls :
        LET cs  == Const(Q(i), specification).value
            obj == Obj(Q(i), specification).value[1]
            ret == calls[i].ret
        IN /\ calls[i].arg = "Obj" => ret.value[1] = obj
           /\ calls[i].arg = "Const" => ret.value = cs
           /\ calls[i].arg = "ObjP" =>
                  ret.value[1] =
                      Plus(obj, Times1e9(NegativeMagnitudes(cs, Len(cs))))
           /\ calls[i].arg = "Prt" =>
                  /\ RowNamed(ret.value, "Const 0").Value = cs[1]
                  /\ RowNamed(ret.value, "Const 1").Value = cs[2]
                  /\ RowNamed(ret.value, "Const 2").Value = cs[3]
                  /\ RowNamed(ret.value, "Const 3").Value = cs[4]
                  /\ RowNamed(ret.value, "Const 4").Value = cs[5]
                  /\ RowNamed(ret.value, "Const 5").Value = cs[6]
                  /\ Float(RowNamed(ret.value, "Objective").Value) = obj

C4_PenalizedObjective ==
    \A i \in Calls :
        calls[i].arg = "ObjP" =>
            LET q   == Q(i)
                obj == IF specification.MAX_TIME = TRUE
                       THEN Inverse(q.t_hov) ELSE q.M_total_real
                c   == Const(q, specification).value
            IN /\ calls[i].ret.type = "float"
               /\ calls[i].ret.value[1].unit = obj
               /\ calls[i].ret.value[1].giga = NegativeMagnitudes(c, Len(c))
               /\ (\A k \in 1..Len(c) : c[k] >= 0)
                     => calls[i].ret.value[1] = Float(obj)

\* a penalized evaluation of a vector with a negative, a zero and a positive
\* constraint
C4_Witness ==
    \E i \in Calls :
        /\ calls[i].arg = "ObjP"
        /\ LET c == Const(Q(i), specification).value
           IN /\ \E k \in 1..6 : c[k] < 0
              /\ \E k \in 1..6 : c[k] = 0
              /\ \E k \in 1..6 : c[k] > 0

\* C5: the objective mode returns the recomputed total mass M_total_real
\* when the mass is minimised and 1/t_hov when the hover time is maximised,
\* a finite positive number whenever t_hov > 0.
C5_Objective ==
    \A i \in Calls :
        calls[i].arg = "Obj" =>
            LET q == Q(i)
            IN /\ calls[i].ret.type = "float"
               /\ specification.MAX_TIME = FALSE
                     => calls[i].ret.value[1] = Float(q.M_total_real)
               /\ specification.MAX_TIME = TRUE
                     => /\ calls[i].ret.value[1] = Float(Inverse(q.t_hov))
                        /\ q.t_hov > 0 => calls[i].ret.value[1].unit > 0

\* an objective evaluation made by the search when the hover time is
\* maximised
C5_Witness ==
    \E i \in Calls :
        /\ calls[i].arg = "Obj"
        /\ calls[i].phase = "search"
        /\ specification.MAX_TIME = TRUE
        /\ Q(i).t_hov > 0

\* C6: the first five constraints are, in this order, M_total minus
\* M_total_real, U_bat minus U_mot_to, T_max_mot minus T_pro_to, U_bat minus
\* V_esc and V_esc minus U_mot_to, each non-negative exactly when the
\* available quantity covers the required one; the report names them so.
C6_FirstFiveConstraints ==
    \A i \in Calls :
        calls[i].arg = "Const" =>
            LET q  == Q(i)
                v  == calls[i].ret.value
                df == df_constraints(v, specification)
            IN /\ v[1] = q.M_total - q.M_total_real
               /\ v[2] = q.U_bat - q.U_mot_to
               /\ v[3] = q.T_max_mot - q.T_pro_to
               /\ v[4] = q.U_bat - q.V_esc
               /\ v[5] = q.V_esc - q.U_mot_to
               /\ (v[1] >= 0) <=> (q.M_total >= q.M_total_real)
               /\ (v[2] >= 0) <=> (q.U_bat >= q.U_mot_to)
               /\ (v[3] >= 0) <=> (q.T_max_mot >= q.T_pro_to)
               /\ (v[4] >= 0) <=> (q.U_bat >= q.V_esc)
               /\ (v[5] >= 0) <=> (q.V_esc >= q.U_mot_to)
               /\ df[1].Comment = "M_total-M_total_real"
               /\ df[2].Comment = "U_bat-U_mot_to"
               /\ df[3].Comment = "T_max_mot-T_pro_to"
               /\ df[4].Comment = "U_bat-V_esc"
               /\ df[5].Comment = "V_esc-U_mot_to"

\* a constraint evaluation whose voltage margin holds and whose torque
\* margin does not
C6_Witness ==
    \E i \in Calls :
        /\ calls[i].arg = "Const"
        /\ calls[i].ret.value[2] > 0
        /\ calls[i].ret.value[3] < 0

\* C7: the sixth constraint is t_hov minus t_hov_spec when the mass is
\* minimised and MTOW minus M_total_real when the hover time is maximised;
\* exactly one of the two is in the list.
C7_SixthConstraint ==
    \A i \in Calls :
        calls[i].arg = "Const" =>
            LET q  == Q(i)
                v  == calls[i].ret.value
                df == df_constraints(v, specification)
            IN /\ Len(v) = 6
               /\ specification.MAX_TIME = FALSE
                     => /\ v[6] = q.t_hov - specification.t_hov_spec
                        /\ df[6].Comment = "t_hov-t_hov_spec"
               /\ specification.MAX_TIME = TRUE
                     => /\ v[6] = specification.MTOW - q.M_total_real
                        /\ df[6].Comment = "MTOW-M_total_real"

\* a constraint evaluation, hover time maximised, of a vector whose mass
\* exceeds MTOW although its hover time reaches t_hov_spec
C7_Witness ==
    \E i \in Calls :
        /\ calls[i].arg = "Const"
        /\ specification.MAX_TIME = TRUE
        /\ calls[i].ret.value[6] < 0
        /\ Q(i).t_hov >= specification.t_hov_spec

\* C8: during the search the local strategy calls only the objective and
\* the constraint view, the global strategy only the penalized objective.
C8_StrategyViews ==
    \A i \in SearchCalls :
        /\ SLSQP = TRUE => calls[i].arg \in {"Obj", "Const"}
        /\ SLSQP # TRUE => calls[i].arg = "ObjP"

\* a finished global search that evaluated several vectors
C8_Witness ==
    /\ SLSQP = FALSE
    /\ pc = "final_obj"
    /\ Cardinality({calls[i].param : i \in SearchCalls}) >= 2

\* C9: every vector passed to the evaluator during a search lies inside
\* the bounds, for both strategies.
C9_SearchWithinBounds ==
    \A i \in SearchCalls : InBounds(calls[i].param, bounds)

\* C10: the optimized vector (the array of the local strategy, the field x
\* of the result of the global strategy) is evaluated in objective mode and
\* then in report mode, after the search has finished and not before; the
\* only earlier report is the one of the initial vector.
C10_FinalFeedback ==
    LET optimum == IF SLSQP = TRUE THEN result ELSE result.x
        n == Len(calls)
    IN /\ \A i \in Calls :
              calls[i].phase = "final"
                  => /\ pc \in {"final_prt", "done"}
                     /\ calls[i].param = optimum
                     /\ \A j \in SearchCalls : j < i
       /\ \A i \in Calls :
              calls[i].arg = "Prt"
                  => \/ i = 1 /\ calls[i].phase = "initial"
                              /\ calls[i].param = parameters
                     \/ i = n /\ calls[i].phase = "final" /\ pc = "done"
       /\ pc = "final_prt"
              => calls[n].phase = "final" /\ calls[n].arg = "Obj"
       /\ pc = "done"
              => /\ calls[n - 1].phase = "final" /\ calls[n - 1].arg = "Obj"
                 /\ calls[n].phase = "final" /\ calls[n].arg = "Prt"
                 /\ SearchCalls # {}

\* a finished run whose optimum is not the initial vector
C10_Witness ==
    /\ pc = "done"
    /\ nEval >= 2
    /\ calls[Len(calls)].param # parameters
    /\ calls[Len(calls)].param # Clip(parameters, bounds)

Direct == {i \in Calls : calls[i].phase = "direct"}

\* C12: an objective or penalized objective evaluation that divides by a
\* zero hover time (1./t_hov with t_hov = 0) signals a DomainError and
\* returns no number.
C12_DomainError ==
    \A i \in Direct :
        (calls[i].arg \in {"Obj", "ObjP"} /\ specification.MAX_TIME = TRUE
            /\ Q(i).t_hov = 0)
            => calls[i].ret.type = "DomainError"

\* the mission values the claim requires to be > 0
Valid(s) == s.M_pay > 0 /\ s.a_to > 0 /\ s.t_hov_spec > 0 /\ s.MTOW > 0

\* C14: with a mission value that is not > 0 the run is rejected at startup:
\* no evaluator call and no optimization step is ever made.
C14_ConfigurationValidated ==
    ~Valid(specification) => (calls = <<>> /\ nEval = 0 /\ pc = "initial")

\* C15: no step of the run, and no evaluator call in any mode, changes the
\* mission specification or the array passed to the call; the architecture
\* and the reference parameters are read and never assigned.
C15_FrameEffect ==
    [][/\ specification' = specification
       /\ \A i \in 1..Len(calls') : calls'[i].left = calls'[i].param]_vars

\* a finished run that called the evaluator in report, penalized objective
\* and objective mode
C15_Witness ==
    /\ pc = "done"
    /\ {calls[i].arg : i \in Calls} = {"Prt", "ObjP", "Obj"}
    /\ specification \in Specifications

\* SizingCode calls of the tank example
Tank == {i \in Calls : calls[i].phase = "tank"}

\* C16: sizing_code and SizingCode return the objective if arg is 'Obj',
\* the problem characteristics if arg is 'Prt', and the constraints for
\* every other value of arg.
C16_Dispatch ==
    /\ \A i \in Direct :
           LET q == Q(i)
           IN /\ calls[i].arg = "Obj" => calls[i].ret = Obj(q, specification)
              /\ calls[i].arg = "Prt" => calls[i].ret = Prt(q, specification)
              /\ calls[i].arg \notin {"Obj", "Prt"}
                    => calls[i].ret = Const(q, specification)
    /\ \A i \in Tank :
           LET x == calls[i].param[1]
               y == calls[i].param[2]
               z == calls[i].param[3]
           IN /\ calls[i].arg = "Obj"
                    => calls[i].ret.value = <<surface(x, y, z)>>
              /\ calls[i].arg = "Prt"
                    => calls[i].ret.value = tank_df(x, y, z)
              /\ calls[i].arg \notin {"Obj", "Prt"}
                    => calls[i].ret.value = tank_constraints(x, y, z)

\* C16, amended: sizing_code returns the objective if arg is 'Obj', the
\* penalized objective if arg is 'ObjP', the problem characteristics if arg
\* is 'Prt' and the constraints for every other value of arg; SizingCode
\* has no branch 'ObjP' and returns the constraints for it.
C16_DispatchAmended ==
    /\ \A i \in Direct :
           LET q == Q(i)
               P == Penalisation(Float(0), constraints(q, specification))
           IN /\ calls[i].arg = "Obj" => calls[i].ret = Obj(q, specification)
              /\ calls[i].arg = "ObjP"
                    => calls[i].ret = ObjP(q, specification, P)
              /\ calls[i].arg = "Prt" => calls[i].ret = Prt(q, specification)
              /\ calls[i].arg \notin {"Obj", "ObjP", "Prt"}
                    => calls[i].ret = Const(q, specification)
    /\ \A i \in Tank :
           LET x == calls[i].param[1]
               y == calls[i].param[2]
               z == calls[i].param[3]
           IN /\ calls[i].arg = "Obj"
                    => calls[i].ret =
                           [type |-> "float", value |-> <<surface(x, y, z)>>]
              /\ calls[i].arg = "Prt"
                    => calls[i].ret =
                           [type |-> "function", value |-> tank_df(x, y, z)]
              /\ calls[i].arg \notin {"Obj", "Prt"}
                    => calls[i].ret =
                           [type |-> "list",
                            value |-> tank_constraints(x, y, z)]

\* a call of the tank example with 'ObjP', which it does not handle, on a
\* vector that violates its volume constraint
C16_Witness ==
    \E i \in Tank :
        /\ calls[i].arg = "ObjP"
        /\ calls[i].ret.type = "list"
        /\ calls[i].ret.value[1] < 0

\* C17: an evaluation in report mode returns the mapping of the named
\* quantities and displays nothing: no widget is shown by an evaluator call.
C17_ReportWithoutDisplay ==
    /\ shown = 0
    /\ \A i \in Calls :
           calls[i].arg = "Prt" => calls[i].ret.type = "mapping"

C19_PayloadScaling ==
    \A i \in Direct :
        LET twice == WithPayload(specification, 2 * specification.M_pay)
        IN Evaluation(calls[i].param, twice).M_total_real
               >= Q(i).M_total_real

\* an objective evaluation, mass minimised, of a vector whose mass grows by
\* more than the added payload when the payload is doubled
C19_Witness ==
    \E i \in Direct :
        LET twice == WithPayload(specification, 2 * specification.M_pay)
        IN /\ calls[i].arg = "Obj"
           /\ specification.MAX_TIME = FALSE
           /\ calls[i].ret.value[1].unit = Q(i).M_total_real
           /\ Evaluation(calls[i].param, twice).M_total_real
                  > Q(i).M_total_real + 1000 * specification.M_pay

\* C21: the tank example returns as objective the surface
\* x*y + 2*z*(x+y), and its three constraints are all >= 0 exactly when
\* the volume x*y*z is at least 200 l and both developed lengths 2z+x and
\* 2z+y are at most 1.5 m.
C21_Tank ==
    \A i \in Tank :
        LET x == calls[i].param[1]
            y == calls[i].param[2]
            z == calls[i].param[3]
            v == calls[i].ret.value
        IN /\ calls[i].arg = "Obj" => v = <<x * y + 2 * z * (x + y)>>
           /\ calls[i].arg = "Const" =>
                  /\ Len(v) = 3
                  /\ (\A k \in 1..3 : v[k] >= 0)
                         <=> /\ x * y * z >= 200
                             /\ 2 * z + x <= 15
                             /\ 2 * z + y <= 15

\* a constraint evaluation of a tank that holds more than 200 l with both
\* developed lengths exactly 1.5 m
C21_Witness ==
    \E i \in Tank :
        /\ calls[i].arg = "Const"
        /\ calls[i].ret.value[1] > 0
        /\ calls[i].ret.value[2] = 0
        /\ calls[i].ret.value[3] = 0

\* C22: one evaluation runs the stages thrust, propeller, motor,
\* battery/ESC, frame and recomputed mass once each, in this order and
\* without iteration; a stage assigns only its own names, each name
\* belongs to one stage and is assigned once; the result does not depend
\* on what the names held before their assignment; M_total is k_os times
\* M_pay, and M_total and the thrusts keep their values once assigned.
C22_OneForwardPass ==
    [][frame' # frame =>
          LET order == <<"Thrust", "Propeller", "Motor", "BatteryEsc",
                         "Frame", "SumUp">>
              n == Len(frame'.trace)
              own(k) == {Stages[k].names[i] : i \in 1..Len(Stages[k].names)}
          IN /\ n <= 6
             /\ frame'.trace = SubSeq(order, 1, n)
             /\ \A j \in 1..Len(Stages) : \A k \in 1..Len(Stages) :
                    /\ Cardinality(own(k)) = Len(Stages[k].names)
                    /\ own(k) \cap DesignNames = {}
                    /\ j # k => own(j) \cap own(k) = {}
             /\ frame # <<>> =>
                    /\ n = Len(frame.trace) + 1
                    /\ frame'.param = frame.param
                    /\ \A name \in DOMAIN frame.l :
                           frame'.l[name] # frame.l[name] => name \in own(n)
             /\ n >= 1 =>
                    frame'.l.M_total
                        = frame'.param[2] * specification.M_pay * 10
             /\ n >= 2 =>
                    /\ frame'.l.M_total = frame.l.M_total
                    /\ frame'.l.F_pro_hov = frame.l.F_pro_hov
                    /\ frame'.l.F_pro_to = frame.l.F_pro_to
             /\ n = 6 => frame'.l = Sizing(frame'.param, specification)]_vars

\* a call that has run its six stages and returned, whose recomputed mass
\* exceeds the assumed one
C22_Witness ==
    /\ pc = "returned"
    /\ frame.trace
           = <<"Thrust", "Propeller", "Motor", "BatteryEsc", "Frame", "SumUp">>
    /\ frame.l.M_total_real > frame.l.M_total

\* C23: the first stage computes M_total = k_os * M_pay, the hover thrust
\* per propeller F_pro_hov = M_total * g / N_pro with N_pro = N_pro_arm *
\* N_arm, and the takeoff thrust F_pro_to = F_pro_hov * (g + a_to) / g,
\* which is not less than F_pro_hov when a_to >= 0.
C23_Thrust ==
    (frame # <<>> /\ Len(frame.trace) >= 1) =>
        LET l == frame.l
            s == specification
        IN /\ l.M_total = frame.param[2] * s.M_pay * 10
           /\ l.F_pro_hov = (l.M_total * g) \div (100 * N_pro_arm * N_arm)
           /\ l.F_pro_to = (l.F_pro_hov * (g + s.a_to)) \div g
           /\ s.a_to >= 0 => l.F_pro_to >= l.F_pro_hov

\* the first stage has run, alone, on the initial vector; the takeoff
\* thrust exceeds the hover thrust
C23_Witness ==
    /\ frame # <<>>
    /\ frame.trace = <<"Thrust">>
    /\ frame.param = parameters
    /\ frame.l.F_pro_to > frame.l.F_pro_hov
    /\ frame.l.F_pro_hov > 0

\* C24: the recomputed total mass is the sum of the masses of the N_pro
\* propellers, the N_pro motors, the N_pro ESCs, the battery, the frame
\* and the payload; it is not less than the payload when no component
\* mass is negative.
C24_MassSum ==
    (frame # <<>> /\ Len(frame.trace) = 6) =>
        LET l == frame.l
            n == N_pro_arm * N_arm
            payload == 1000 * specification.M_pay
        IN /\ l.M_total_real
                  = n * l.M_pro + n * l.M_mot + n * l.M_esc
                      + l.M_bat + l.M_frame + payload
           /\ (l.M_pro >= 0 /\ l.M_mot >= 0 /\ l.M_esc >= 0
                  /\ l.M_bat >= 0 /\ l.M_frame >= 0)
                 => l.M_total_real >= payload

\* the six stages have run on a vector whose components all have a
\* positive mass
C24_Witness ==
    /\ frame # <<>>
    /\ Len(frame.trace) = 6
    /\ frame.l.M_pro > 0 /\ frame.l.M_mot > 0 /\ frame.l.M_esc > 0
    /\ frame.l.M_bat > 0 /\ frame.l.M_frame > 0
    /\ frame.l.M_total_real > 1000 * specification.M_pay

\* C25: the series cell count N_s_bat is a whole number, the smallest one
\* not below the required voltage U_bat_est divided by the voltage of one
\* cell; the battery voltage U_bat is N_s_bat times the voltage of one
\* cell and is not below U_bat_est; the rows N_s_bat and U_bat of the
\* report hold the values the computation used.
C25_CellCount ==
    (frame # <<>> /\ Len(frame.trace) >= 4) =>
        LET l == frame.l
        IN /\ l.N_s_bat % 1000 = 0
           /\ l.N_s_bat * 37 >= l.U_bat_est * 10
           /\ (l.N_s_bat - 1000) * 37 < l.U_bat_est * 10
           /\ l.U_bat * 10 = l.N_s_bat * 37
           /\ l.U_bat >= l.U_bat_est
           /\ (pc = "returned" /\ calls[Len(calls)].arg = "Prt") =>
                  LET df == calls[Len(calls)].ret.value
                  IN /\ RowNamed(df, "N_s_bat").Value = l.N_s_bat
                     /\ RowNamed(df, "U_bat").Value = l.U_bat

\* a report has been returned for a vector whose required voltage is not a
\* whole number of cells, so that the rounding raised the battery voltage
C25_Witness ==
    /\ frame # <<>>
    /\ pc = "returned"
    /\ calls[Len(calls)].arg = "Prt"
    /\ frame.l.U_bat > frame.l.U_bat_est
    /\ frame.l.N_s_bat >= 2000
    /\ RowNamed(calls[Len(calls)].ret.value, "N_s_bat").Value = frame.l.N_s_bat

\* a < b for two returned floats, inf being above every finite float
Below(a, b) ==
    IF "inf" \in DOMAIN a THEN FALSE
    ELSE IF "inf" \in DOMAIN b THEN TRUE
    ELSE Less(a, b)

\* the penalized objective of call i with its constraint k made d deeper
Deeper(i, k, d) ==
    LET q == Q(i)
        c == constraints(q, specification)
    IN ObjP(q, specification,
            Penalisation(P_init(locals), [c EXCEPT ![k] = @ - d])).value[1]

PenaltyOrder(i) ==
    LET q     == Q(i)
        c     == constraints(q, specification)
        plain == Obj(q, specification).value[1]
        pen   == calls[i].ret.value[1]
    IN /\ ~Below(pen, plain)
       /\ (pen = plain) <=> (\A k \in 1..Len(c) : c[k] >= 0)
       /\ \A k \in 1..Len(c) :
              c[k] < 0 => \A d \in {1, 10, 1000} :
                              Below(pen, Deeper(i, k, d))

\* C26: for every design vector the penalized objective is not smaller
\* than the plain objective, the two are equal exactly when no constraint
\* is negative (a constraint equal to 0 is satisfied), and a violated
\* constraint made more negative, all else equal, strictly increases the
\* penalized objective.
C26_PenaltyOrder ==
    \A i \in Direct : calls[i].arg = "ObjP" => PenaltyOrder(i)

\* the same for the vectors whose objective is finite
C26_PenaltyOrderFinite ==
    \A i \in Direct :
        (calls[i].arg = "ObjP"
            /\ ~(specification.MAX_TIME = TRUE /\ Q(i).t_hov = 0))
            => PenaltyOrder(i)

\* penalized evaluations with a finite objective: one without a negative
\* constraint, or one with a negative and a zero constraint
C26_Witness ==
    \E i \in Direct :
        /\ calls[i].arg = "ObjP"
        /\ Q(i).t_hov > 0
        /\ LET c == constraints(Q(i), specification)
           IN /\ \E k \in 1..6 : c[k] < 0
              /\ \E k \in 1..6 : c[k] = 0
              /\ calls[i].ret.value[1].giga > 0

\* the penalty 1e9 * 1e-6 of a violation of 1e-6, in g
P_at_1e_6 == 1000000

Feasible(x, s) ==
    LET c == constraints(Evaluation(x, s), s)
    IN \A k \in 1..Len(c) : c[k] >= 0

C28_InitialWithinBounds ==
    \A i \in Calls :
        (calls[i].phase = "initial" /\ calls[i].param = parameters)
            => \A k \in 1..Len(bounds) :
                   /\ bounds[k][1] <= calls[i].param[k]
                   /\ calls[i].param[k] <= bounds[k][2]

\* the quantity a comment of the rows of type 'Constraints' names
Named(comment, q, s) ==
    CASE comment = "M_total-M_total_real" -> q.M_total - q.M_total_real
      [] comment = "U_bat-U_mot_to"       -> q.U_bat - q.U_mot_to
      [] comment = "T_max_mot-T_pro_to"   -> q.T_max_mot - q.T_pro_to
      [] comment = "U_bat-V_esc"          -> q.U_bat - q.V_esc
      [] comment = "V_esc-U_mot_to"       -> q.V_esc - q.U_mot_to
      [] comment = "t_hov-t_hov_spec"     -> q.t_hov - s.t_hov_spec
      [] comment = "MTOW-M_total_real"    -> s.MTOW - q.M_total_real

\* C29: in the report, for every i in 0..5 the row 'Const i' holds
\* constraints[i] of the same evaluation, and its comment names the
\* quantity that constraints[i] is in the current objective mode.
C29_ConstraintRows ==
    \A i \in Calls :
        calls[i].arg = "Prt" =>
            LET q  == Q(i)
                cs == Const(q, specification).value
                df == calls[i].ret.value
                rows == <<"Const 0", "Const 1", "Const 2", "Const 3",
                          "Const 4", "Const 5">>
            IN \A k \in 1..6 :
                   /\ RowNamed(df, rows[k]).Value = cs[k]
                   /\ Named(RowNamed(df, rows[k]).Comment, q, specification)
                          = cs[k]

\* the same without the value of the row 'Const 5'
C29_ConstraintRowsButLast ==
    \A i \in Calls :
        calls[i].arg = "Prt" =>
            LET q  == Q(i)
                cs == Const(q, specification).value
                df == calls[i].ret.value
                rows == <<"Const 0", "Const 1", "Const 2", "Const 3",
                          "Const 4", "Const 5">>
            IN \A k \in 1..6 :
                   /\ k <= 5 => RowNamed(df, rows[k]).Value = cs[k]
                   /\ Named(RowNamed(df, rows[k]).Comment, q, specification)
                          = cs[k]

\* the points the tank example is examined at: the corners of the box of
\* its bounds, every 0.1 m of the part of the box that holds the feasible
\* points of that spacing, every 0.01 m around the optimum, and the points
\* of the last iterations
TankSamples ==
    {<<tank_bounds[1][i], tank_bounds[2][j], tank_bounds[3][k]>> :
        i \in 1..2, j \in 1..2, k \in 1..2}
    \cup {<<tenths(x), tenths(y), tenths(z)>> :
            x \in 5..10, y \in 5..10, z \in 2..5}
    \cup {<<hundredths(x), hundredths(y), hundredths(z)>> :
            x \in 72..75, y \in 72..75, z \in 36..38}
    \cup Around

InTankBounds(p) ==
    \A k \in 1..3 : /\ ~float_lt(p[k], tank_bounds[k][1])
                    /\ ~float_lt(tank_bounds[k][2], p[k])

\* every constraint is >= 0
Satisfies(p) ==
    \A k \in 1..3 : ~float_constraints(p[1], p[2], p[3])[k].neg

\* every constraint is >= -acc
SatisfiesWithin(p) ==
    \A k \in 1..3 :
        LET C == float_constraints(p[1], p[2], p[3])[k]
        IN C.neg => ~float_lt(acc, C.mag)

FeasibleSurfaces ==
    {float_surface(p[1], p[2], p[3]) :
        p \in {q \in TankSamples : InTankBounds(q) /\ Satisfies(q)}}

====
